---- MODULE Spec2Model ----
(***************************************************************************)
(* State-machine model of efsec-wasm (src/efsec-wasm/src/lib.rs): the      *)
(* wasm-bindgen wrappers EfSecAccount, EfSecSession,                       *)
(* EfSecOutboundGroupSession and EfSecInboundGroupSession around the       *)
(* vodozemac Olm / Megolm types.  Keys, ratchet keys and chain keys are    *)
(* abstract identities: a key is named by who derived it and at which      *)
(* step, so two ends hold "the same key" exactly when the protocol makes   *)
(* them derive it from the same inputs.                                    *)
(***************************************************************************)
EXTENDS Integers, Sequences, FiniteSets, TLC

VARIABLES
    accounts,   \* EfSecAccount instances: one-time key pool and next key id
    sessions,   \* EfSecSession instances, in order of creation
    net,        \* pairwise texts produced so far (envelopes, altered copies)
    consumed,   \* history: per session, the (generation, counter) pairs decrypted
    otkUsed,    \* history: <<one-time key, session>> for every establishment
    ogs,        \* EfSecOutboundGroupSession instances
    igs,        \* EfSecInboundGroupSession instances
    gnet,       \* group texts produced so far (exports, messages, altered copies)
    last,       \* the last call: operation, instance, result text, returned value
    serde       \* whether serde_json::to_string may return Err

olmVars == <<accounts, sessions, net, consumed, otkUsed>>
megolmVars == <<ogs, igs, gnet>>
vars == <<accounts, sessions, net, consumed, otkUsed, ogs, igs, gnet, last, serde>>

----------------------------------------------------------------------------
\* Bounds of the model.
MaxKeys == 1
MaxSessions == 2
MaxMsgs == 3
MaxTamper == 1
MaxRaw == 1
MaxGroupMsgs == 3
MaxInbound == 2
MaxExports == 2
MaxOutbound == 1
MaxAhead == 1
MaxReplies == 2
MaxMixed == 2

\* Limits of the wrapped types (vodozemac::olm).
MAX_ONE_TIME_KEYS == 5000
MAX_MESSAGE_KEYS == 40
MAX_MESSAGE_GAP == 2000
MAX_RECEIVING_CHAINS == 5

Accts == {"A", "B"}

\* Byte strings.  Hi and Yo are UTF-8 text, Bad is the byte 0xFF.
Hi == <<104, 105>>
Yo == <<121, 111>>
Bad == <<255>>
Texts == {Hi, Yo}

\* String::from_utf8 on the byte strings used here (single-byte code points;
\* a byte >= 0x80 that starts no valid sequence is rejected).
from_utf8(bytes) ==
    IF \A i \in 1..Len(bytes) : bytes[i] < 128
    THEN [ok |-> TRUE, val |-> bytes]
    ELSE [ok |-> FALSE, val |-> <<>>]

----------------------------------------------------------------------------
\* Error texts (e.to_string()) and the error kinds they belong to.
ErrClass(res) ==
    CASE res = "ok" -> "ok"
      [] res \in {"serde_json", "base64"} -> "DecodingError"
      [] res \in {"MismatchedIdentityKey", "MissingOneTimeKey", "SessionCreation:InvalidMAC",
                  "SessionCreation:MissingMessageKey"}
            -> "SessionEstablishmentError"
      [] res \in {"InvalidMAC", "Signature"} -> "AuthenticationError"
      [] res \in {"MissingMessageKey", "TooBigMessageGap", "UnknownMessageIndex"}
            -> "ReplayOrOrderingError"
      [] res = "FromUtf8Error" -> "EncodingOutputError"

----------------------------------------------------------------------------
\* Strings crossing the boundary.  kind says what the text is:
\*   "OlmMessage"    serde_json text of an OlmMessage: {"type": t, "body": b}
\*   "PreKeyMessage" serde_json text of a PreKeyMessage: the JSON string "b"
\*   "Key"           serde_json text of a Curve25519PublicKey
\*   "empty"         "" (String::default())
\*   "malformed"     any other text
NoSid == [init |-> "-", base |-> 0, otk |-> <<"-", 0>>]
NoMsg == [sid |-> NoSid, side |-> "-", gen |-> 0, ctr |-> 0, pt |-> <<>>, tampered |-> FALSE]
Str(kind, type, body) == [kind |-> kind, type |-> type, body |-> body]
EmptyString == Str("empty", 0, NoMsg)
\* A returned String holding the given bytes; the absence of a value (Err).
String(bytes) == [kind |-> "String", val |-> bytes]
NoValue == [kind |-> "none"]
Malformed == Str("malformed", 0, NoMsg)

KeyStr(owner, n) == [kind |-> "Key", owner |-> owner, n |-> n]
MalformedKey == [kind |-> "malformed", owner |-> "-", n |-> 0]

\* serde_json::to_string.  serde = "infallible": the Ok arm only, as the
\* serializers of these types behave; serde = "fallible": both arms of the
\* Result the signature allows.
SerdeOutcomes == IF serde = "fallible" THEN {TRUE, FALSE} ELSE {TRUE}

\* serde_json::to_string(&message).unwrap_or_default()
to_string_or_default(okSer, text) == IF okSer THEN text ELSE EmptyString

\* serde_json::from_str::<OlmMessage>
from_str_OlmMessage(s) ==
    IF s.kind = "OlmMessage"
    THEN [ok |-> TRUE, type |-> s.type, msg |-> s.body]
    ELSE [ok |-> FALSE, type |-> 0, msg |-> NoMsg]

\* serde_json::from_str::<PreKeyMessage>
from_str_PreKeyMessage(s) ==
    IF s.kind = "PreKeyMessage"
    THEN [ok |-> TRUE, msg |-> s.body]
    ELSE [ok |-> FALSE, msg |-> NoMsg]

\* serde_json::from_str::<Curve25519PublicKey>
from_str_Key(s) == s.kind = "Key"

\* What a caller hands to create_inbound_session for an initial envelope:
\* the body of the envelope as a JSON string.
PreKeyText(env) == Str("PreKeyMessage", 0, env.body)

----------------------------------------------------------------------------
\* vodozemac::olm::Account

\* insert_secret_key that drops the newest key of a full store.
generate_one_time_key_drop_newest(acct) ==
    LET pool == IF Cardinality(acct.otks) >= MAX_ONE_TIME_KEYS
                THEN acct.otks \ {CHOOSE k \in acct.otks : \A j \in acct.otks : k >= j}
                ELSE acct.otks
    IN [otks |-> pool \cup {acct.nextKeyId}, nextKeyId |-> acct.nextKeyId + 1]

\* OneTimeKeys::generate_one_time_key / insert_secret_key: one fresh key
\* under the id next_key_id; a full store first drops its oldest key (the
\* lowest id).
generate_one_time_key(acct) ==
    LET pool == IF Cardinality(acct.otks) >= MAX_ONE_TIME_KEYS
                THEN acct.otks \ {CHOOSE k \in acct.otks : \A j \in acct.otks : k <= j}
                ELSE acct.otks
    IN [otks |-> pool \cup {acct.nextKeyId}, nextKeyId |-> acct.nextKeyId + 1]

RECURSIVE generate(_, _)
\* OneTimeKeys::generate: generate_one_time_key, count times.  The loop is
\* split in two halves, the first evaluated before the second starts (the
\* test on its key counter, which only grows, sees to that), so that the
\* depth of the evaluation stays logarithmic in count.
generate(acct, count) ==
    IF count = 0 THEN acct
    ELSE IF count = 1 THEN generate_one_time_key(acct)
    ELSE LET h == count \div 2
             half == generate(acct, h)
         IN IF half.nextKeyId > acct.nextKeyId THEN generate(half, count - h) ELSE half

\* MessageKeyStore::push without a capacity.
push_key_unbounded(skipped, c) == Append(skipped, c)

\* MessageKeyStore::push: at capacity the oldest key is dropped.
push_key(skipped, c) ==
    IF Len(skipped) >= MAX_MESSAGE_KEYS THEN Append(Tail(skipped), c)
    ELSE Append(skipped, c)

RECURSIVE skip_to(_, _, _)
\* The advance loop of ReceiverChain::decrypt: counters from..to-1; a key is
\* kept only when it is within MAX_MESSAGE_KEYS of the target, the ratchet
\* merely advances over the counters before those.
skip_to(skipped, from, to) ==
    IF from >= to THEN skipped
    ELSE IF to - from > MAX_MESSAGE_KEYS THEN skip_to(skipped, to - MAX_MESSAGE_KEYS, to)
    ELSE LET pushed == push_key(skipped, from)
         IN IF Len(pushed) > 0 THEN skip_to(pushed, from + 1, to) ELSE pushed

Remove(seq, x) == SelectSeq(seq, LAMBDA y : y # x)
Has(seq, x) == \E i \in 1..Len(seq) : seq[i] = x

\* ReceiverChain::decrypt that keeps a cached message key after using it.
chain_decrypt_keep(ch, m, keyOk) ==
    LET gap == IF m.ctr > ch.ctr THEN m.ctr - ch.ctr ELSE 0
        macOk == keyOk /\ ~m.tampered
    IN  IF gap > MAX_MESSAGE_GAP
        THEN [res |-> "TooBigMessageGap", ch |-> ch]
        ELSE IF ch.ctr > m.ctr
        THEN IF ~Has(ch.skipped, m.ctr)
             THEN [res |-> "MissingMessageKey", ch |-> ch]
             ELSE IF macOk
                  THEN [res |-> "ok", ch |-> ch]
                  ELSE [res |-> "InvalidMAC", ch |-> ch]
        ELSE IF macOk
             THEN [res |-> "ok",
                   ch |-> [ch EXCEPT !.ctr = m.ctr + 1,
                                     !.skipped = skip_to(@, ch.ctr, m.ctr)]]
             ELSE [res |-> "InvalidMAC", ch |-> ch]

\* ReceiverChain::decrypt that does not verify the MAC of the message.
chain_decrypt_no_mac(ch, m, keyOk) ==
    LET gap == IF m.ctr > ch.ctr THEN m.ctr - ch.ctr ELSE 0
    IN  IF gap > MAX_MESSAGE_GAP
        THEN [res |-> "TooBigMessageGap", ch |-> ch]
        ELSE IF ch.ctr > m.ctr
        THEN IF ~Has(ch.skipped, m.ctr)
             THEN [res |-> "MissingMessageKey", ch |-> ch]
             ELSE IF keyOk
                  THEN [res |-> "ok", ch |-> [ch EXCEPT !.skipped = Remove(@, m.ctr)]]
                  ELSE [res |-> "InvalidMAC", ch |-> ch]
        ELSE IF keyOk
             THEN [res |-> "ok",
                   ch |-> [ch EXCEPT !.ctr = m.ctr + 1,
                                     !.skipped = skip_to(@, ch.ctr, m.ctr)]]
             ELSE [res |-> "InvalidMAC", ch |-> ch]

\* ReceiverChain::decrypt.  keyOk: the chain key is the sender's chain key.
\* The MAC is checked with the message key, so it holds only for an
\* unaltered message under the right chain.
chain_decrypt(ch, m, keyOk) ==
    LET gap == IF m.ctr > ch.ctr THEN m.ctr - ch.ctr ELSE 0
        macOk == keyOk /\ ~m.tampered
    IN  IF gap > MAX_MESSAGE_GAP
        THEN [res |-> "TooBigMessageGap", ch |-> ch]
        ELSE IF ch.ctr > m.ctr
        THEN IF ~Has(ch.skipped, m.ctr)
             THEN [res |-> "MissingMessageKey", ch |-> ch]
             ELSE IF macOk
                  THEN [res |-> "ok", ch |-> [ch EXCEPT !.skipped = Remove(@, m.ctr)]]
                  ELSE [res |-> "InvalidMAC", ch |-> ch]
        ELSE IF macOk
             THEN [res |-> "ok",
                   ch |-> [ch EXCEPT !.ctr = m.ctr + 1,
                                     !.skipped = skip_to(@, ch.ctr, m.ctr)]]
             ELSE [res |-> "InvalidMAC", ch |-> ch]

\* ChainStore::push: at capacity the oldest receiving chain is dropped.
push_chain(recv, ch) ==
    IF Len(recv) >= MAX_RECEIVING_CHAINS THEN Append(Tail(recv), ch)
    ELSE Append(recv, ch)

ChainIndex(s, m) ==
    IF m.sid = s.sid /\ m.side # s.side /\ \E i \in 1..Len(s.recv) : s.recv[i].gen = m.gen
    THEN CHOOSE i \in 1..Len(s.recv) : s.recv[i].gen = m.gen
    ELSE 0

\* Session::decrypt_decoded.  A message under a known ratchet key goes to
\* its receiving chain; any other ratchet key makes a Diffie-Hellman ratchet
\* step, whose new chain equals the sender's only when the sender derived
\* it from this session's current ratchet key (m.gen = s.gen + 1, active).
decrypt_decoded(s, m) ==
    LET i == ChainIndex(s, m)
    IN  IF i # 0
        THEN LET r == chain_decrypt(s.recv[i], m, TRUE)
             IN [res |-> r.res, s |-> [s EXCEPT !.recv[i] = r.ch],
                 pt |-> IF r.res = "ok" THEN m.pt ELSE <<>>]
        ELSE LET keyOk == m.sid = s.sid /\ m.side # s.side /\ s.active /\ m.gen = s.gen + 1
                 r == chain_decrypt([gen |-> m.gen, ctr |-> 0, skipped |-> <<>>], m, keyOk)
             IN IF r.res = "ok"
                THEN [res |-> "ok",
                      s |-> [s EXCEPT !.active = FALSE, !.gen = m.gen,
                                       !.recv = push_chain(@, r.ch)],
                      pt |-> m.pt]
                ELSE [res |-> r.res, s |-> s, pt |-> <<>>]

\* Session::encrypt that does not advance the sending chain.
olm_encrypt_no_advance(s, bytes) ==
    LET g == IF s.active THEN s.gen ELSE s.gen + 1
        c == IF s.active THEN s.sendCtr ELSE 0
    IN  [s |-> [s EXCEPT !.active = TRUE, !.gen = g, !.sendCtr = c],
         type |-> IF Len(s.recv) = 0 THEN 0 ELSE 1,
         msg |-> [sid |-> s.sid, side |-> s.side, gen |-> g, ctr |-> c,
                  pt |-> bytes, tampered |-> FALSE]]

\* Session::encrypt: an inactive sending ratchet is activated first (new
\* ratchet key, new sending chain with counter 0); the message is a pre-key
\* message until the session has received one.
olm_encrypt(s, bytes) ==
    LET g == IF s.active THEN s.gen ELSE s.gen + 1
        c == IF s.active THEN s.sendCtr ELSE 0
    IN  [s |-> [s EXCEPT !.active = TRUE, !.gen = g, !.sendCtr = c + 1],
         type |-> IF Len(s.recv) = 0 THEN 0 ELSE 1,
         msg |-> [sid |-> s.sid, side |-> s.side, gen |-> g, ctr |-> c,
                  pt |-> bytes, tampered |-> FALSE]]

\* Account::create_outbound_session
new_outbound(owner, base, otk) ==
    [owner |-> owner, side |-> "out", sid |-> [init |-> owner, base |-> base, otk |-> otk],
     active |-> TRUE, gen |-> 0, sendCtr |-> 0, recv |-> <<>>]

\* Session::new_remote
new_remote(owner, m) ==
    [owner |-> owner, side |-> "in", sid |-> m.sid,
     active |-> FALSE, gen |-> m.gen, sendCtr |-> 0,
     recv |-> <<[gen |-> m.gen, ctr |-> 0, skipped |-> <<>>]>>]

\* create_inbound_session that leaves the one-time key in the pool.
account_create_inbound_keep(a, identity, m) ==
    IF identity.owner # m.sid.init \/ identity.n # 0
    THEN [res |-> "MismatchedIdentityKey", acct |-> accounts[a], s |-> new_remote(a, m)]
    ELSE IF m.sid.otk[1] # a \/ m.sid.otk[2] \notin accounts[a].otks
    THEN [res |-> "MissingOneTimeKey", acct |-> accounts[a], s |-> new_remote(a, m)]
    ELSE LET r == decrypt_decoded(new_remote(a, m), m)
         IN IF r.res # "ok"
            THEN [res |-> "SessionCreation:" \o r.res, acct |-> accounts[a], s |-> r.s]
            ELSE [res |-> "ok", acct |-> accounts[a], s |-> r.s]

\* Account::create_inbound_session
account_create_inbound(a, identity, m) ==
    IF identity.owner # m.sid.init \/ identity.n # 0
    THEN [res |-> "MismatchedIdentityKey", acct |-> accounts[a], s |-> new_remote(a, m)]
    ELSE IF m.sid.otk[1] # a \/ m.sid.otk[2] \notin accounts[a].otks
    THEN [res |-> "MissingOneTimeKey", acct |-> accounts[a], s |-> new_remote(a, m)]
    ELSE LET r == decrypt_decoded(new_remote(a, m), m)
         IN IF r.res # "ok"
            THEN [res |-> "SessionCreation:" \o r.res, acct |-> accounts[a], s |-> r.s]
            ELSE [res |-> "ok",
                  acct |-> [accounts[a] EXCEPT !.otks = @ \ {m.sid.otk[2]}],
                  s |-> r.s]

----------------------------------------------------------------------------
\* The wrappers of lib.rs as functions of the instance and the arguments:
\* the result text, the instance after the call and the value returned.

\* EfSecAccount::create_outbound_session
create_outbound_session(a, base, ik, otk) ==
    IF ~from_str_Key(ik) \/ ~from_str_Key(otk)
    THEN [res |-> "serde_json", s |-> new_outbound(a, base, <<otk.owner, otk.n>>)]
    ELSE [res |-> "ok", s |-> new_outbound(a, base, <<otk.owner, otk.n>>)]

\* EfSecAccount::create_inbound_session: Ok carries the session alone
\* (result.session), result.plaintext is dropped; Err carries no session.
create_inbound_session(a, ik, text) ==
    LET pm == from_str_PreKeyMessage(text)
    IN IF ~from_str_Key(ik) \/ ~pm.ok
       THEN [res |-> "serde_json", acct |-> accounts[a], out |-> NoValue]
       ELSE LET r == account_create_inbound(a, ik, pm.msg)
            IN IF r.res # "ok"
               THEN [res |-> r.res, acct |-> r.acct, out |-> NoValue]
               ELSE [res |-> "ok", acct |-> r.acct, out |-> [session |-> r.s]]

\* session_id derived from the current ratchet generation as well.
session_id_with_ratchet(s) == [kind |-> "SessionId", keys |-> s.sid, gen |-> s.gen]

\* EfSecSession::session_id (Session::session_id): a digest of the session
\* keys fixed at establishment: the initiator's identity key, its base key
\* and the one-time key.
session_id(s) == [kind |-> "SessionId", keys |-> s.sid, gen |-> 0]

\* EfSecSession::encrypt
encrypt(s, plaintext, okSer) ==
    LET r == olm_encrypt(s, plaintext)
    IN [s |-> r.s, out |-> to_string_or_default(okSer, Str("OlmMessage", r.type, r.msg))]

\* decrypt that accepts normal-type envelopes only: an initial-type
\* envelope is refused as undecodable.
decrypt_normal_only(s, text) ==
    LET om == from_str_OlmMessage(text)
    IN IF ~om.ok \/ om.type = 0
       THEN [res |-> "serde_json", s |-> s, out |-> NoValue]
       ELSE LET r == decrypt_decoded(s, om.msg)
                u == from_utf8(r.pt)
            IN IF r.res # "ok" THEN [res |-> r.res, s |-> r.s, out |-> NoValue]
               ELSE IF ~u.ok THEN [res |-> "FromUtf8Error", s |-> r.s, out |-> NoValue]
               ELSE [res |-> "ok", s |-> r.s, out |-> String(u.val)]

\* EfSecSession::decrypt
decrypt(s, text) ==
    LET om == from_str_OlmMessage(text)
    IN IF ~om.ok
       THEN [res |-> "serde_json", s |-> s, out |-> NoValue]
       ELSE LET r == decrypt_decoded(s, om.msg)
                u == from_utf8(r.pt)
            IN IF r.res # "ok" THEN [res |-> r.res, s |-> r.s, out |-> NoValue]
               ELSE IF ~u.ok THEN [res |-> "FromUtf8Error", s |-> r.s, out |-> NoValue]
               ELSE [res |-> "ok", s |-> r.s, out |-> String(u.val)]

----------------------------------------------------------------------------
\* The record of a call.  An instance is an account (by name) or a session
\* (by its place in its sequence).
Account(a) == [acct |-> a, idx |-> 0]
Instance(i) == [acct |-> "-", idx |-> i]
Op(op, inst, res, out) == [op |-> op, inst |-> inst, res |-> res, out |-> out]

Init ==
    /\ accounts = [a \in Accts |-> [otks |-> {}, nextKeyId |-> 1]]
    /\ sessions = <<>>
    /\ net = {}
    /\ consumed = <<>>
    /\ otkUsed = {}
    /\ ogs = <<>>
    /\ igs = <<>>
    /\ gnet = {}
    /\ last = Op("new", Instance(0), "ok", NoValue)
    /\ serde = "infallible"

\* EfSecAccount::generate_one_time_keys
GenerateOneTimeKeys(a, count) ==
    /\ accounts[a].nextKeyId + count <= MaxKeys + 1
    /\ accounts' = [accounts EXCEPT ![a] = generate(@, count)]
    /\ last' = Op("generate_one_time_keys", Account(a), "ok", NoValue)
    /\ UNCHANGED <<sessions, net, consumed, otkUsed, megolmVars, serde>>

\* EfSecAccount::generate_one_time_keys with a count that fills the pool
\* to the capacity of the store, and with small counts once it is full.
GenerateOneTimeKeysBulk(a, count) ==
    /\ count = MAX_ONE_TIME_KEYS \/ accounts[a].nextKeyId > MAX_ONE_TIME_KEYS
    /\ accounts[a].nextKeyId + count <= MAX_ONE_TIME_KEYS + MaxKeys + 2
    /\ accounts' = [accounts EXCEPT ![a] = generate(@, count)]
    /\ last' = Op("generate_one_time_keys", Account(a), "ok", NoValue)
    /\ UNCHANGED <<sessions, net, consumed, otkUsed, megolmVars, serde>>

\* EfSecAccount::identity_keys
IdentityKeys(a) ==
    /\ \E okSer \in SerdeOutcomes :
         last' = Op("identity_keys", Account(a), "ok",
                    to_string_or_default(okSer, [kind |-> "IdentityKeys", owner |-> a]))
    /\ UNCHANGED <<olmVars, megolmVars, serde>>

\* EfSecAccount::one_time_keys
OneTimeKeys(a) ==
    /\ \E okSer \in SerdeOutcomes :
         last' = Op("one_time_keys", Account(a), "ok",
                    to_string_or_default(okSer, [kind |-> "OneTimeKeys", owner |-> a,
                                                 keys |-> accounts[a].otks]))
    /\ UNCHANGED <<olmVars, megolmVars, serde>>

CreateOutbound(a, ik, otk) ==
    LET r == create_outbound_session(a, Len(sessions) + 1, ik, otk)
    IN /\ IF r.res # "ok"
          THEN /\ last' = Op("create_outbound_session", Account(a), r.res, NoValue)
               /\ UNCHANGED <<sessions, consumed>>
          ELSE /\ Len(sessions) < MaxSessions
               /\ sessions' = Append(sessions, r.s)
               /\ consumed' = Append(consumed, {})
               /\ last' = Op("create_outbound_session", Account(a), "ok", [session |-> r.s])
       /\ UNCHANGED <<accounts, net, otkUsed, megolmVars, serde>>

CreateInbound(a, ik, text) ==
    LET r == create_inbound_session(a, ik, text)
    IN /\ IF r.res # "ok"
          THEN /\ accounts' = [accounts EXCEPT ![a] = r.acct]
               /\ last' = Op("create_inbound_session", Account(a), r.res, NoValue)
               /\ UNCHANGED <<sessions, consumed, otkUsed>>
          ELSE /\ Len(sessions) < MaxSessions
               /\ accounts' = [accounts EXCEPT ![a] = r.acct]
               /\ sessions' = Append(sessions, r.out.session)
               /\ consumed' = Append(consumed, {<<text.body.gen, text.body.ctr>>})
               /\ otkUsed' = otkUsed \cup {<<text.body.sid.otk, Len(sessions) + 1>>}
               /\ last' = Op("create_inbound_session", Account(a), "ok", r.out)
       /\ UNCHANGED <<net, megolmVars, serde>>

\* EfSecSession::session_id
SessionId(i) ==
    /\ last' = Op("session_id", Instance(i), "ok", session_id(sessions[i]))
    /\ UNCHANGED <<olmVars, megolmVars, serde>>

Sent == {e \in net : e.kind = "OlmMessage" /\ ~e.body.tampered}

Encrypt(i, p) ==
    /\ Cardinality(Sent) < MaxMsgs
    /\ sessions[i].sendCtr < MaxMsgs
    /\ \E okSer \in SerdeOutcomes :
         LET r == encrypt(sessions[i], p, okSer)
         IN /\ sessions' = [sessions EXCEPT ![i] = r.s]
            /\ net' = net \cup {r.out}
            /\ last' = Op("encrypt", Instance(i), "ok", r.out)
    /\ UNCHANGED <<accounts, consumed, otkUsed, megolmVars, serde>>

\* Session::encrypt reached by a peer that does not go through this binding:
\* the plaintext is bytes, here bytes that are not UTF-8.
PeerEncryptBytes(i) ==
    /\ Cardinality(Sent) < MaxMsgs
    /\ Cardinality({e \in Sent : e.body.pt = Bad}) < MaxRaw
    /\ LET r == olm_encrypt(sessions[i], Bad)
       IN /\ sessions' = [sessions EXCEPT ![i] = r.s]
          /\ net' = net \cup {Str("OlmMessage", r.type, r.msg)}
    /\ UNCHANGED <<accounts, consumed, otkUsed, megolmVars, last, serde>>

Decrypt(i, text) ==
    LET r == decrypt(sessions[i], text)
        keyUsed == from_str_OlmMessage(text).ok
                   /\ decrypt_decoded(sessions[i], text.body).res = "ok"
    IN /\ sessions' = [sessions EXCEPT ![i] = r.s]
       /\ consumed' = IF keyUsed
                      THEN [consumed EXCEPT ![i] = @ \cup {<<text.body.gen, text.body.ctr>>}]
                      ELSE consumed
       /\ last' = Op("decrypt", Instance(i), r.res, r.out)
       /\ UNCHANGED <<accounts, net, otkUsed, megolmVars, serde>>

\* An envelope altered in transit: bits of the ciphertext or of the MAC.
Tamper(env) ==
    /\ env.kind = "OlmMessage"
    /\ ~env.body.tampered
    /\ Cardinality({e \in net : e.body.tampered}) < MaxTamper
    /\ net' = net \cup {[env EXCEPT !.body.tampered = TRUE]}
    /\ UNCHANGED <<accounts, sessions, consumed, otkUsed, megolmVars, last, serde>>

KeyTexts(a) ==
    {MalformedKey} \cup {KeyStr(x, 0) : x \in Accts \ {a}}

OtkTexts(x) == {KeyStr(x, n) : n \in 1..(accounts[x].nextKeyId - 1)}

\* The first and the latest one-time key an account has published.
PoolOtkTexts(x) ==
    {KeyStr(x, n) : n \in {1, accounts[x].nextKeyId - 1} \ {0}}

Envelopes == {e \in net : e.kind = "OlmMessage"}

\* The texts a caller may hand to create_inbound_session
InboundTexts == {PreKeyText(e) : e \in Envelopes} \cup net

NextOlm ==
    \/ \E a \in Accts, count \in 1..MaxKeys : GenerateOneTimeKeys(a, count)
    \/ \E a \in Accts : \E x \in Accts \ {a} :
         \E otk \in OtkTexts(x) \cup {MalformedKey} : CreateOutbound(a, KeyStr(x, 0), otk)
    \/ \E a \in Accts : \E ik \in KeyTexts(a) :
         \E text \in InboundTexts : CreateInbound(a, ik, text)
    \/ \E i \in 1..Len(sessions) : SessionId(i)
    \/ \E i \in 1..Len(sessions), p \in Texts : Encrypt(i, p)
    \/ \E i \in 1..Len(sessions) : PeerEncryptBytes(i)
    \/ \E i \in 1..Len(sessions), text \in net \cup {Malformed} : Decrypt(i, text)
    \/ \E env \in net : Tamper(env)

----------------------------------------------------------------------------
\* vodozemac::megolm

\* Group texts.  kind: "SessionKey" (SessionKey::to_base64), "MegolmMessage"
\* (MegolmMessage::to_base64) or "malformed".  sigOk: the Ed25519 signature
\* in the text verifies under the signing key of `og`.
GStr(kind, og, idx, pt, sigOk) ==
    [kind |-> kind, og |-> og, idx |-> idx, pt |-> pt, sigOk |-> sigOk]
GMalformed == GStr("malformed", 0, 0, <<>>, FALSE)

\* encrypt that does not advance the ratchet.
group_encrypt_stuck(o, bytes) ==
    [g |-> ogs[o], msg |-> GStr("MegolmMessage", o, ogs[o].idx, bytes, TRUE)]

\* EfSecOutboundGroupSession::encrypt (GroupSession::encrypt, to_base64):
\* the message carries the current index and is
\* signed; the ratchet then advances.  The index is a u32, far above the
\* indices reached here.
group_encrypt(o, bytes) ==
    [g |-> [ogs[o] EXCEPT !.idx = @ + 1],
     msg |-> GStr("MegolmMessage", o, ogs[o].idx, bytes, TRUE)]

\* EfSecOutboundGroupSession::session_key
group_session_key(o) == GStr("SessionKey", o, ogs[o].idx, <<>>, TRUE)

\* SessionKey::from_base64: decoding checks the signature of the export.
SessionKey_from_base64(text) == text.kind = "SessionKey" /\ text.sigOk

\* MegolmMessage::from_base64
MegolmMessage_from_base64(text) == text.kind = "MegolmMessage"

\* InboundGroupSession::new
new_inbound_group(key) == [og |-> key.og, initial |-> key.idx, latest |-> key.idx]

\* find_ratchet that only moves forward: an index behind latest_ratchet is
\* refused.
find_ratchet_forward_only(g, index) ==
    IF g.latest = index THEN g.latest
    ELSE IF g.latest < index THEN index
    ELSE -1

\* find_ratchet that treats an index before the initial ratchet like one
\* after it.
find_ratchet_unbounded(g, index) ==
    IF g.initial = index THEN g.latest
    ELSE IF g.latest = index THEN g.latest
    ELSE index

\* InboundGroupSession::find_ratchet: the position of latest_ratchet after
\* the search, or -1 when no ratchet for the index can be derived.
find_ratchet(g, index) ==
    IF g.initial = index THEN g.latest
    ELSE IF g.latest = index THEN g.latest
    ELSE IF g.latest < index THEN index
    ELSE IF g.initial < index THEN index
    ELSE -1

\* decrypt that looks for the ratchet of the index before it verifies the
\* signature.
megolm_decrypt_index_first(g, m) ==
    LET pos == find_ratchet(g, m.idx)
    IN IF pos = -1
       THEN [res |-> "UnknownMessageIndex", g |-> g, pt |-> <<>>]
       ELSE IF ~(m.og = g.og /\ m.sigOk)
       THEN [res |-> "Signature", g |-> [g EXCEPT !.latest = pos], pt |-> <<>>]
       ELSE [res |-> "ok", g |-> [g EXCEPT !.latest = pos], pt |-> m.pt]

\* InboundGroupSession::decrypt: signature first, then the ratchet, then the
\* MAC and the cipher (which hold for a message its sender signed).
megolm_decrypt(g, m) ==
    IF ~(m.og = g.og /\ m.sigOk)
    THEN [res |-> "Signature", g |-> g, pt |-> <<>>]
    ELSE LET pos == find_ratchet(g, m.idx)
         IN IF pos = -1
            THEN [res |-> "UnknownMessageIndex", g |-> g, pt |-> <<>>]
            ELSE [res |-> "ok", g |-> [g EXCEPT !.latest = pos], pt |-> m.pt]

\* EfSecInboundGroupSession::new
inbound_group_new(text) ==
    IF ~SessionKey_from_base64(text)
    THEN [res |-> "base64", g |-> new_inbound_group(text)]
    ELSE [res |-> "ok", g |-> new_inbound_group(text)]

\* EfSecInboundGroupSession::decrypt
group_decrypt(g, text) ==
    IF ~MegolmMessage_from_base64(text)
    THEN [res |-> "base64", g |-> g, out |-> NoValue]
    ELSE LET r == megolm_decrypt(g, text)
             u == from_utf8(r.pt)
         IN IF r.res # "ok" THEN [res |-> r.res, g |-> r.g, out |-> NoValue]
            ELSE IF ~u.ok THEN [res |-> "FromUtf8Error", g |-> r.g, out |-> NoValue]
            ELSE [res |-> "ok", g |-> r.g, out |-> String(u.val)]

\* EfSecOutboundGroupSession::new
NewOutboundGroup ==
    /\ Len(ogs) < MaxOutbound
    /\ ogs' = Append(ogs, [idx |-> 0])
    /\ last' = Op("group_new", Instance(Len(ogs) + 1), "ok", NoValue)
    /\ UNCHANGED <<olmVars, igs, gnet, serde>>

GroupSessionKey(o) ==
    /\ Cardinality({t \in gnet : t.kind = "SessionKey"} \cup {group_session_key(o)})
          <= MaxExports
    /\ gnet' = gnet \cup {group_session_key(o)}
    /\ last' = Op("group_session_key", Instance(o), "ok", group_session_key(o))
    /\ UNCHANGED <<olmVars, ogs, igs, serde>>

GroupSessionId(o) ==
    /\ last' = Op("group_session_id", Instance(o), "ok", [kind |-> "SigningKey", og |-> o])
    /\ UNCHANGED <<olmVars, megolmVars, serde>>

GroupEncrypt(o, p) ==
    /\ ogs[o].idx < MaxGroupMsgs
    /\ LET r == group_encrypt(o, p)
       IN /\ ogs' = [ogs EXCEPT ![o] = r.g]
          /\ gnet' = gnet \cup {r.msg}
          /\ last' = Op("group_encrypt", Instance(o), "ok", r.msg)
    /\ UNCHANGED <<olmVars, igs, serde>>

\* GroupSession::encrypt reached by a sender that does not go through this
\* binding: the plaintext is bytes that are not UTF-8.
PeerGroupEncryptBytes(o) ==
    /\ ogs[o].idx < MaxGroupMsgs
    /\ Cardinality({t \in gnet : t.pt = Bad /\ t.sigOk}) < MaxRaw
    /\ LET r == group_encrypt(o, Bad)
       IN /\ ogs' = [ogs EXCEPT ![o] = r.g]
          /\ gnet' = gnet \cup {r.msg}
    /\ UNCHANGED <<olmVars, igs, last, serde>>

NewInboundGroup(text) ==
    LET r == inbound_group_new(text)
    IN /\ IF r.res # "ok"
          THEN /\ last' = Op("group_inbound_new", Instance(0), r.res, NoValue)
               /\ UNCHANGED igs
          ELSE /\ Len(igs) < MaxInbound
               /\ igs' = Append(igs, r.g)
               /\ last' = Op("group_inbound_new", Instance(Len(igs) + 1), "ok", NoValue)
       /\ UNCHANGED <<olmVars, ogs, gnet, serde>>

\* decrypt on inbound sessions that share one ratchet when they were built
\* from the same export.
GroupDecryptShared(i, text) ==
    LET r == group_decrypt(igs[i], text)
    IN /\ igs' = [k \in 1..Len(igs) |->
                    IF igs[k].og = igs[i].og /\ igs[k].initial = igs[i].initial
                    THEN r.g ELSE igs[k]]
       /\ last' = Op("group_decrypt", Instance(i), r.res, r.out)
       /\ UNCHANGED <<olmVars, ogs, gnet, serde>>

GroupDecrypt(i, text) ==
    LET r == group_decrypt(igs[i], text)
    IN /\ igs' = [igs EXCEPT ![i] = r.g]
       /\ last' = Op("group_decrypt", Instance(i), r.res, r.out)
       /\ UNCHANGED <<olmVars, ogs, gnet, serde>>

\* A group text altered in transit, possibly in its index field: the
\* signature over the text no longer verifies.
GroupTamper(text, idx) ==
    /\ text.kind # "malformed"
    /\ text.sigOk
    /\ Cardinality({t \in gnet : ~t.sigOk}) < MaxTamper
    /\ gnet' = gnet \cup {[text EXCEPT !.sigOk = FALSE, !.idx = idx]}
    /\ UNCHANGED <<olmVars, ogs, igs, last, serde>>

NextMegolm ==
    \/ NewOutboundGroup
    \/ \E o \in 1..Len(ogs) : GroupSessionKey(o)
    \/ \E o \in 1..Len(ogs) : GroupSessionId(o)
    \/ \E o \in 1..Len(ogs), p \in Texts : GroupEncrypt(o, p)
    \/ \E o \in 1..Len(ogs) : PeerGroupEncryptBytes(o)
    \/ \E text \in gnet \cup {GMalformed} : NewInboundGroup(text)
    \/ \E i \in 1..Len(igs), text \in gnet \cup {GMalformed} : GroupDecrypt(i, text)
    \/ \E text \in gnet : \E idx \in {0, text.idx} : GroupTamper(text, idx)

----------------------------------------------------------------------------
InitFallible ==
    /\ accounts = [a \in Accts |-> [otks |-> {}, nextKeyId |-> 1]]
    /\ sessions = <<>>
    /\ net = {}
    /\ consumed = <<>>
    /\ otkUsed = {}
    /\ ogs = <<>>
    /\ igs = <<>>
    /\ gnet = {}
    /\ last = Op("new", Instance(0), "ok", NoValue)
    /\ serde = "fallible"

\* The pairwise half: accounts and pairwise sessions.
Spec == Init /\ [][NextOlm]_vars

\* The group half: outbound and inbound group sessions.
SpecMegolm == Init /\ [][NextMegolm]_vars

\* The serializing operations, with both arms of serde_json::to_string's
\* Result.
NextSerde ==
    \/ \E a \in Accts, count \in 1..MaxKeys : GenerateOneTimeKeys(a, count)
    \/ \E a \in Accts : IdentityKeys(a)
    \/ \E a \in Accts : OneTimeKeys(a)
    \/ \E a \in Accts : \E x \in Accts \ {a} :
         \E otk \in OtkTexts(x) \cup {MalformedKey} : CreateOutbound(a, KeyStr(x, 0), otk)
    \/ \E i \in 1..Len(sessions), p \in Texts : Encrypt(i, p)

SpecSerde == InitFallible /\ [][NextSerde]_vars

\* The operations of an account whose one-time key pool reaches the
\* capacity of the store: Owner publishes keys, Peer establishes sessions
\* towards it.
Owner == "A"
Peer == "B"

NextPool ==
    \/ \E count \in 1..MaxKeys : GenerateOneTimeKeys(Owner, count)
    \/ \E count \in (1..MaxKeys) \cup {MAX_ONE_TIME_KEYS} :
         GenerateOneTimeKeysBulk(Owner, count)
    \/ IdentityKeys(Owner)
    \/ OneTimeKeys(Owner)
    \/ \E otk \in PoolOtkTexts(Owner) \cup {MalformedKey} :
         CreateOutbound(Peer, KeyStr(Owner, 0), otk)
    \/ \E ik \in KeyTexts(Owner) : \E text \in InboundTexts : CreateInbound(Owner, ik, text)
    \/ \E i \in 1..Len(sessions) : sessions[i].owner = Peer /\ Encrypt(i, Hi)

SpecPool == Init /\ [][NextPool]_vars

\* Accounts, pairwise sessions and group sessions side by side: Owner
\* publishes keys and accepts sessions, Peer opens them, both ends exchange
\* messages, and group sessions are created, exported, imported and used.
NextAll ==
    \/ GenerateOneTimeKeys(Owner, 1)
    \/ \E otk \in OtkTexts(Owner) : CreateOutbound(Peer, KeyStr(Owner, 0), otk)
    \/ \E text \in InboundTexts : CreateInbound(Owner, KeyStr(Peer, 0), text)
    \/ \E i \in 1..Len(sessions) : Cardinality(Sent) < MaxMixed /\ Encrypt(i, Hi)
    \/ \E i \in 1..Len(sessions), text \in net : Decrypt(i, text)
    \/ NewOutboundGroup
    \/ \E o \in 1..Len(ogs) : GroupSessionKey(o)
    \/ \E o \in 1..Len(ogs) : ogs[o].idx < MaxMixed /\ GroupEncrypt(o, Hi)
    \/ \E text \in gnet : NewInboundGroup(text)
    \/ \E i \in 1..Len(igs), text \in gnet : GroupDecrypt(i, text)

SpecAll == Init /\ [][NextAll]_vars

\* A pair of sessions whose sender is far ahead of its receiver: Peer made
\* an outbound session on Owner's one-time key 1 and encrypted SkipSent
\* messages; Owner made the inbound session from the first of them, so its
\* receiving chain stands at counter 1.  InFlight are the counters of the
\* messages still to arrive: the next one, those just past the capacity of
\* the skipped-key store, those around the largest gap, and the last one.
SkipOtk == <<Owner, 1>>
SkipSent == MAX_MESSAGE_GAP + MAX_MESSAGE_KEYS + MaxAhead + 4
SkipEnvelope(c) ==
    encrypt([new_outbound(Peer, 1, SkipOtk) EXCEPT !.sendCtr = c], Hi, TRUE).out
InFlight ==
    {1} \cup {1 + MAX_MESSAGE_KEYS + k : k \in 1..MaxAhead}
        \cup {1 + MAX_MESSAGE_GAP + k : k \in 0..MaxAhead}
        \cup {SkipSent - 1}

InitSkip ==
    /\ accounts = [a \in Accts |-> [otks |-> {}, nextKeyId |-> IF a = Owner THEN 2 ELSE 1]]
    /\ sessions = <<[new_outbound(Peer, 1, SkipOtk) EXCEPT !.sendCtr = SkipSent],
                    decrypt_decoded(new_remote(Owner, SkipEnvelope(0).body),
                                    SkipEnvelope(0).body).s>>
    /\ net = {SkipEnvelope(c) : c \in InFlight}
    /\ consumed = <<{}, {<<0, 0>>}>>
    /\ otkUsed = {<<SkipOtk, 2>>}
    /\ ogs = <<>>
    /\ igs = <<>>
    /\ gnet = {}
    /\ last = Op("create_inbound_session", Account(Owner), "ok", NoValue)
    /\ serde = "infallible"

\* EfSecSession::encrypt on either end of that pair, once the receiver
\* has begun to answer: the envelopes of the later sending chains.
EncryptReply(i, p) ==
    /\ Cardinality({e \in Sent : e.body.gen > 0}) < MaxReplies
    /\ sessions[i].side = "in" \/ Len(sessions[i].recv) > 0
    /\ LET r == encrypt(sessions[i], p, TRUE)
       IN /\ sessions' = [sessions EXCEPT ![i] = r.s]
          /\ net' = net \cup {r.out}
          /\ last' = Op("encrypt", Instance(i), "ok", r.out)
    /\ UNCHANGED <<accounts, consumed, otkUsed, megolmVars, serde>>

NextSkip ==
    \/ \E i \in 1..Len(sessions), text \in net \cup {Malformed} : Decrypt(i, text)
    \/ \E i \in 1..Len(sessions) : EncryptReply(i, Yo)
    \/ \E env \in net : Tamper(env)

SpecSkip == InitSkip /\ [][NextSkip]_vars

----------------------------------------------------------------------------
\* Vocabulary of the properties.

\* Envelope e was sent to session i by the session at the other end.
Mirrored(i, e) ==
    /\ e.kind = "OlmMessage"
    /\ e.body.sid = sessions[i].sid
    /\ e.body.side # sessions[i].side

\* The (generation, counter) pair of an envelope.
Key(e) == <<e.body.gen, e.body.ctr>>

\* Envelope e is what encrypt(P) returned for a text P, unaltered.
Genuine(e) == e.kind = "OlmMessage" /\ ~e.body.tampered /\ e.body.pt \in Texts

\* Group message m was signed by the sender whose export built session i.
GroupGenuine(i, m) == m.kind = "MegolmMessage" /\ m.sigOk /\ m.og = igs[i].og

RoundTripPairwiseWitness ==
    /\ last.op = "decrypt" /\ last.res = "ok" /\ last.out.val \in Texts
    /\ \E i, j \in 1..Len(sessions) :
          /\ sessions[i].side = "in" /\ sessions[j].side = "out"
          /\ sessions[i].sid = sessions[j].sid
          /\ Cardinality(consumed[i]) >= 2
          /\ consumed[j] # {}

\* C2 -- create_inbound_session returns the plaintext of the initial
\* message together with the session.
InboundReturnsPlaintext ==
    (last.op = "create_inbound_session" /\ last.res = "ok")
        => /\ "plaintext" \in DOMAIN last.out
           /\ last.out.plaintext \in {e.body.pt : e \in net}

\* C3 -- One-time-key single use.  No one-time key has established two
\* sessions, and a create_inbound_session whose initial message references
\* a key already consumed fails (with a session-establishment failure when
\* its arguments decode), leaves the pool as it was and returns no session.
UsedKeys == {u[1] : u \in otkUsed}

OneTimeKeySingleUse ==
    /\ \A u, v \in otkUsed : u[1] = v[1] => u = v
    /\ \A a \in Accts : \A ik \in KeyTexts(a) : \A text \in InboundTexts :
          (text.kind = "PreKeyMessage" /\ text.body.sid.otk \in UsedKeys)
              => LET r == create_inbound_session(a, ik, text)
                 IN /\ r.res # "ok"
                    /\ from_str_Key(ik) => ErrClass(r.res) = "SessionEstablishmentError"
                    /\ r.acct = accounts[a]
                    /\ r.out = NoValue

\* A second establishment on a consumed key was attempted and refused.
OneTimeKeySingleUseWitness ==
    /\ last.op = "create_inbound_session" /\ last.res = "MissingOneTimeKey"
    /\ \E text \in InboundTexts :
          /\ text.kind = "PreKeyMessage"
          /\ text.body.sid.otk \in UsedKeys
          /\ text.body.sid.otk[1] = last.inst.acct

\* C4 -- Atomic failure.  Whenever an operation would return a failure, the
\* instance it is called on is left exactly as it was.
AtomicFailure ==
    /\ \A i \in 1..Len(sessions) : \A text \in net \cup {Malformed} :
          decrypt(sessions[i], text).res # "ok"
              => decrypt(sessions[i], text).s = sessions[i]
    /\ \A a \in Accts : \A ik \in KeyTexts(a) : \A text \in InboundTexts :
          create_inbound_session(a, ik, text).res # "ok"
              => create_inbound_session(a, ik, text).acct = accounts[a]
    /\ \A i \in 1..Len(igs) : \A text \in gnet \cup {GMalformed} :
          group_decrypt(igs[i], text).res # "ok"
              => group_decrypt(igs[i], text).g = igs[i]

RoundTripGroup ==
    \A i \in 1..Len(igs) : \A m \in gnet :
        (GroupGenuine(i, m) /\ m.pt \in Texts /\ m.idx >= igs[i].initial)
            => /\ group_decrypt(igs[i], m).res = "ok"
               /\ group_decrypt(igs[i], m).out = String(m.pt)

\* Two inbound sessions of one export have both decrypted past its index.
RoundTripGroupWitness ==
    /\ last.op = "group_decrypt" /\ last.res = "ok" /\ last.out.val \in Texts
    /\ Len(igs) = 2
    /\ igs[1].og = igs[2].og /\ igs[1].initial = igs[2].initial
    /\ igs[1].latest > igs[1].initial /\ igs[2].latest > igs[2].initial

\* C7 -- Forward secrecy boundary (group).  The starting index of an
\* inbound group session never changes, and in every reachable state a
\* message of its sender with an index below it fails with the
\* unknown-index (replay/ordering) failure and changes nothing.
ForwardSecrecyBoundary ==
    /\ [](\A i \in 1..Len(igs) : \A m \in gnet :
            (GroupGenuine(i, m) /\ m.idx < igs[i].initial)
                => /\ group_decrypt(igs[i], m).res = "UnknownMessageIndex"
                   /\ ErrClass(group_decrypt(igs[i], m).res) = "ReplayOrOrderingError"
                   /\ group_decrypt(igs[i], m).g = igs[i])
    /\ [][\A i \in 1..Len(igs) : igs'[i].initial = igs[i].initial]_vars

\* A session exported at index >= 1 that has decrypted later messages
\* refused a message from before its export.
ForwardSecrecyBoundaryWitness ==
    /\ last.op = "group_decrypt" /\ last.res = "UnknownMessageIndex"
    /\ igs[last.inst.idx].initial >= 1
    /\ igs[last.inst.idx].latest > igs[last.inst.idx].initial

\* C8 -- No silent failure: identity_keys, one_time_keys and encrypt never
\* return the empty string.
NoSilentFailure ==
    last.op \in {"identity_keys", "one_time_keys", "encrypt"} => last.out.kind # "empty"

\* C9 as stated -- an altered envelope always fails with an authentication
\* failure.
TamperAuthFailure ==
    \A i \in 1..Len(sessions) : \A e \in net :
        (e.kind = "OlmMessage" /\ e.body.tampered)
            => ErrClass(decrypt(sessions[i], e).res) = "AuthenticationError"

\* The message key for e is out of the receiving chain's reach: behind the
\* chain position and not cached, or further ahead than the maximum gap
\* (counted from 0 on a chain the session does not hold yet).
Unavailable(i, e) ==
    LET c == ChainIndex(sessions[i], e.body)
    IN IF c # 0
       THEN \/ /\ sessions[i].recv[c].ctr > e.body.ctr
                /\ ~Has(sessions[i].recv[c].skipped, e.body.ctr)
            \/ e.body.ctr - sessions[i].recv[c].ctr > MAX_MESSAGE_GAP
       ELSE e.body.ctr > MAX_MESSAGE_GAP

\* C9 as amended -- an altered envelope never decrypts and never changes
\* the session; it fails with an authentication failure whenever its message
\* key is within reach, and with a replay/ordering failure otherwise.
TamperDetected ==
    \A i \in 1..Len(sessions) : \A e \in net :
        (e.kind = "OlmMessage" /\ e.body.tampered)
            => LET r == decrypt(sessions[i], e)
               IN /\ r.res # "ok"
                  /\ r.s = sessions[i]
                  /\ ErrClass(r.res) = IF Unavailable(i, e) THEN "ReplayOrOrderingError"
                                       ELSE "AuthenticationError"

\* An altered copy of an envelope of the mirrored end was refused for its
\* MAC.
TamperDetectedWitness ==
    /\ last.op = "decrypt" /\ last.res = "InvalidMAC"
    /\ \E e \in net : e.body.tampered /\ Mirrored(last.inst.idx, e)
                       /\ ~Unavailable(last.inst.idx, e)

\* C10 -- The index of an outbound group session never repeats or
\* decreases: the messages it has produced carry exactly the indices
\* 0..idx-1, once each; a step leaves the index or raises it by one while
\* producing the message of the old index; session_key and session_id leave
\* it alone.
SenderMessages(o) == {m \in gnet : m.kind = "MegolmMessage" /\ m.sigOk /\ m.og = o}

GroupIndexMonotonic ==
    /\ [](\A o \in 1..Len(ogs) :
            /\ {m.idx : m \in SenderMessages(o)} = 0..(ogs[o].idx - 1)
            /\ Cardinality(SenderMessages(o)) = ogs[o].idx)
    /\ [][\A o \in 1..Len(ogs) :
            /\ \/ ogs'[o].idx = ogs[o].idx
               \/ /\ ogs'[o].idx = ogs[o].idx + 1
                  /\ \E m \in gnet' \ gnet : m.og = o /\ m.idx = ogs[o].idx /\ m.sigOk
            /\ (GroupSessionKey(o) \/ GroupSessionId(o)) => ogs'[o].idx = ogs[o].idx]_vars

\* Three messages were produced, with an export taken in between.
GroupIndexMonotonicWitness ==
    /\ last.op = "group_encrypt"
    /\ \E o \in 1..Len(ogs) :
          /\ ogs[o].idx = 3
          /\ last.out.idx = 2
          /\ \E t \in gnet : t.kind = "SessionKey" /\ t.og = o /\ t.idx = 1

\* C11 -- session_id is stable and agreed.  No step changes the identifier
\* of an existing session; in every reachable state neither an encrypt nor a
\* decrypt (successful, failed, or one making a Diffie-Hellman ratchet step)
\* would change it; and the session that create_inbound_session makes from
\* an initial envelope of an outbound session has that session's identifier.
SessionIdStable ==
    /\ [](\A i \in 1..Len(sessions) :
            /\ \A text \in net \cup {Malformed} :
                  session_id(decrypt(sessions[i], text).s) = session_id(sessions[i])
            /\ \A p \in Texts :
                  session_id(encrypt(sessions[i], p, TRUE).s) = session_id(sessions[i])
            /\ \A p \in Texts :
                  (sessions[i].side = "out" /\ Len(sessions[i].recv) = 0)
                      => LET e == encrypt(sessions[i], p, TRUE).out
                             r == create_inbound_session(e.body.sid.otk[1],
                                      KeyStr(sessions[i].owner, 0), PreKeyText(e))
                         IN r.res = "ok"
                               => session_id(r.out.session) = session_id(sessions[i]))
    /\ [][\A i \in 1..Len(sessions) :
            session_id(sessions'[i]) = session_id(sessions[i])]_vars

\* session_id was read on an outbound session after a Diffie-Hellman ratchet
\* step, and the inbound session established from it has the same identifier.
SessionIdStableWitness ==
    /\ last.op = "session_id"
    /\ \E i, j \in 1..Len(sessions) :
          /\ sessions[i].side = "in" /\ sessions[j].side = "out"
          /\ <<sessions[j].sid.otk, i>> \in otkUsed
          /\ sessions[j].gen >= 1
          /\ last.inst.idx = j
          /\ last.out = session_id(sessions[i])

\* The ids generate_one_time_keys issued to account a in a step.
Issued(a) == accounts[a].nextKeyId .. (accounts'[a].nextKeyId - 1)

\* The step is a successful create_inbound_session on account a, and the
\* pool lost exactly the key its initial message references.
InboundTookKey(a) ==
    /\ last'.op = "create_inbound_session" /\ last'.res = "ok" /\ last'.inst = Account(a)
    /\ accounts'[a].otks \subseteq accounts[a].otks
    /\ accounts[a].otks \ accounts'[a].otks = {last'.out.session.sid.otk[2]}

\* The step is an operation the claim says leaves the pools alone.
PoolReader ==
    \/ last'.op \in {"identity_keys", "one_time_keys", "create_outbound_session"}
    \/ last'.op = "create_inbound_session" /\ last'.res # "ok"

\* C12 as stated -- the pool shrinks only through a successful
\* create_inbound_session; generate_one_time_keys(count) adds exactly count
\* keys with fresh ids and removes none.
PoolShrinksOnlyByInbound ==
    [][\A a \in Accts :
         /\ (accounts[a].otks \ accounts'[a].otks # {}) => InboundTookKey(a)
         /\ (last'.op = "generate_one_time_keys" /\ last'.inst = Account(a))
               => /\ accounts[a].otks \subseteq accounts'[a].otks
                  /\ accounts'[a].otks \ accounts[a].otks = Issued(a)
         /\ PoolReader => accounts'[a] = accounts[a]]_vars

\* C12 as amended -- the pool never holds more than MAX_ONE_TIME_KEYS keys.
\* generate_one_time_keys issues ids that are in no pool yet and leaves the
\* pool holding the newest keys of the old pool and the issued ones, up to
\* that capacity: it removes none while the capacity is not exceeded, and
\* otherwise only the keys with the lowest ids.  A successful
\* create_inbound_session removes exactly the referenced key, and nothing
\* else changes a pool.
PoolFrame ==
    /\ [](\A a \in Accts : Cardinality(accounts[a].otks) <= MAX_ONE_TIME_KEYS)
    /\ [][\A a \in Accts :
            LET old == accounts[a].otks
                new == accounts'[a].otks
                generated == last'.op = "generate_one_time_keys" /\ last'.inst = Account(a)
            IN /\ (old \ new # {})
                     => \/ InboundTookKey(a)
                        \/ generated /\ Cardinality(new) = MAX_ONE_TIME_KEYS
               /\ generated
                     => /\ Issued(a) \cap old = {}
                        /\ new \subseteq old \cup Issued(a)
                        /\ Cardinality(new) =
                              IF Cardinality(old) + Cardinality(Issued(a)) <= MAX_ONE_TIME_KEYS
                              THEN Cardinality(old) + Cardinality(Issued(a))
                              ELSE MAX_ONE_TIME_KEYS
                        /\ \A k \in (old \cup Issued(a)) \ new : \A j \in new : k < j
               /\ PoolReader => accounts'[a] = accounts[a]]_vars

\* A generate_one_time_keys on a full pool from which no key was ever
\* consumed: the pool is at capacity and has lost its oldest key.
PoolFrameWitness ==
    /\ last.op = "generate_one_time_keys"
    /\ otkUsed = {}
    /\ Cardinality(accounts[last.inst.acct].otks) = MAX_ONE_TIME_KEYS
    /\ 1 \notin accounts[last.inst.acct].otks
    /\ accounts[last.inst.acct].nextKeyId > MAX_ONE_TIME_KEYS + 1

\* C13 -- Group replay.  After an inbound group session has decrypted a
\* message, a second decrypt of that message on that session fails.
GroupReplayRejected ==
    [][\A i \in 1..Len(igs) : \A m \in gnet :
         (GroupDecrypt(i, m) /\ group_decrypt(igs[i], m).res = "ok")
             => group_decrypt(igs'[i], m).res # "ok"]_vars

\* C14 -- Signature before index.  A group message whose signature does
\* not verify fails with the signature (authentication) failure on every
\* inbound group session, whatever its index, and leaves the session as it
\* was.
SignatureFirst ==
    \A i \in 1..Len(igs) : \A m \in gnet :
        (m.kind = "MegolmMessage" /\ ~m.sigOk)
            => LET r == group_decrypt(igs[i], m)
               IN /\ r.res = "Signature"
                  /\ ErrClass(r.res) = "AuthenticationError"
                  /\ r.out = NoValue
                  /\ r.g = igs[i]

\* A session that starts at index >= 1 and has decrypted past it refused,
\* for its signature, an altered message whose index is before its start.
SignatureFirstWitness ==
    /\ last.op = "group_decrypt" /\ last.res = "Signature"
    /\ igs[last.inst.idx].initial >= 1
    /\ igs[last.inst.idx].latest > igs[last.inst.idx].initial
    /\ \A m \in gnet : (m.kind = "MegolmMessage" /\ ~m.sigOk) => m.idx < igs[last.inst.idx].initial
    /\ \E m \in gnet : m.kind = "MegolmMessage" /\ ~m.sigOk

\* The counters receiving chain c of session s holds a skipped key for.
Cached(s, c) == {s.recv[c].skipped[k] : k \in 1..Len(s.recv[c].skipped)}

\* C15 -- The skipped-key cache is bounded.  In every reachable state a
\* session holds at most MAX_RECEIVING_CHAINS receiving chains, each with at
\* most MAX_MESSAGE_KEYS cached keys, every one for a counter behind the
\* chain position, none twice and none for a (generation, counter) already
\* consumed.  A decrypt caches keys only when its counter is ahead of the
\* chain position by no more than MAX_MESSAGE_GAP, and then only keys of
\* the counters in between; further ahead it fails and changes nothing; a
\* decrypt served from the cache removes the key it used.
SkippedKeysBounded ==
    \A i \in 1..Len(sessions) :
        LET s == sessions[i]
        IN /\ Len(s.recv) <= MAX_RECEIVING_CHAINS
           /\ \A c \in 1..Len(s.recv) :
                 /\ Len(s.recv[c].skipped) <= MAX_MESSAGE_KEYS
                 /\ Cardinality(Cached(s, c)) = Len(s.recv[c].skipped)
                 /\ \A k \in Cached(s, c) :
                       k < s.recv[c].ctr /\ <<s.recv[c].gen, k>> \notin consumed[i]
           /\ \A e \in Envelopes :
                 LET c == ChainIndex(s, e.body)
                     r == decrypt(s, e)
                 IN c # 0 =>
                      LET gap == e.body.ctr - s.recv[c].ctr
                          fresh == Cached(r.s, c) \ Cached(s, c)
                      IN /\ gap > MAX_MESSAGE_GAP
                               => r.res = "TooBigMessageGap" /\ r.s = s
                         /\ fresh # {}
                               => /\ gap \in 1..MAX_MESSAGE_GAP
                                  /\ \A k \in fresh : s.recv[c].ctr <= k /\ k < e.body.ctr
                         /\ (r.res = "ok" /\ gap < 0)
                               => e.body.ctr \in Cached(s, c) \ Cached(r.s, c)

\* A chain whose store is full, after a skip longer than its capacity,
\* refused a message further ahead than the largest gap.
SkippedKeysBoundedWitness ==
    /\ last.op = "decrypt" /\ last.res = "TooBigMessageGap"
    /\ Len(sessions[last.inst.idx].recv) = 1
    /\ Len(sessions[last.inst.idx].recv[1].skipped) = MAX_MESSAGE_KEYS
    /\ sessions[last.inst.idx].recv[1].ctr > MAX_MESSAGE_KEYS + 1

\* Envelope e is within reach of session i: on a receiving chain the
\* session holds, its counter is at or ahead of the chain position by no more
\* than MAX_MESSAGE_GAP, or behind it with its key still cached; on a chain
\* newer than all the session holds, its counter is at most
\* MAX_MESSAGE_GAP.
InWindow(i, e) ==
    LET s == sessions[i]
        c == ChainIndex(s, e.body)
    IN IF c # 0
       THEN \/ /\ e.body.ctr >= s.recv[c].ctr
                /\ e.body.ctr - s.recv[c].ctr <= MAX_MESSAGE_GAP
            \/ e.body.ctr \in Cached(s, c)
       ELSE /\ \A k \in 1..Len(s.recv) : s.recv[k].gen < e.body.gen
            /\ e.body.ctr <= MAX_MESSAGE_GAP

GroupPositionMonotonic ==
    /\ [](\A i \in 1..Len(igs) : igs[i].latest >= igs[i].initial)
    /\ [][\A i \in 1..Len(igs) : igs'[i].latest >= igs[i].latest]_vars

\* The envelopes session i has produced.
SentBy(i) ==
    {e \in Sent : e.body.sid = sessions[i].sid /\ e.body.side = sessions[i].side}

\* C17 -- No (sending-chain generation, counter) pair is used twice.  The
\* envelopes a session has produced carry pairwise distinct pairs, all
\* behind the position of its sending chain; and in every reachable state
\* the next encrypt uses a pair no envelope of the session carries, leaves
\* the chain one past the counter it used, and starts at counter 0 only on
\* a new sending chain, which it installs exactly when a message of the
\* peer's newer chain was received since the last encrypt.
SendingPairUnique ==
    \A i \in 1..Len(sessions) :
        LET s == sessions[i]
        IN /\ \A e1, e2 \in SentBy(i) : Key(e1) = Key(e2) => e1 = e2
           /\ \A e \in SentBy(i) :
                 \/ e.body.gen < s.gen
                 \/ e.body.gen = s.gen /\ s.active /\ e.body.ctr < s.sendCtr
           /\ \A p \in Texts :
                 LET r == encrypt(s, p, TRUE)
                     m == r.out.body
                 IN /\ Key(r.out) \notin {Key(e) : e \in SentBy(i)}
                    /\ r.s.active /\ r.s.gen = m.gen /\ r.s.sendCtr = m.ctr + 1
                    /\ IF s.active
                       THEN m.gen = s.gen /\ m.ctr = s.sendCtr
                       ELSE m.gen = s.gen + 1 /\ m.ctr = 0

\* A session has encrypted on its first sending chain and, after a
\* Diffie-Hellman ratchet step, on a new one whose counter started again.
SendingPairUniqueWitness ==
    /\ last.op = "encrypt"
    /\ last.out.kind = "OlmMessage"
    /\ last.out.body.gen >= 2 /\ last.out.body.ctr = 0
    /\ \E e \in SentBy(last.inst.idx) : e.body.gen = 0
    /\ sessions[last.inst.idx].sendCtr = 1

\* The type of the envelope the next encrypt on session s returns: 0 for
\* initial (pre-key), 1 for normal.
NextType(s) == encrypt(s, Hi, TRUE).out.type

\* The step is a successful decrypt on session i.
DecryptedOk(i) ==
    last'.op = "decrypt" /\ last'.res = "ok" /\ last'.inst = Instance(i)

\* C18 -- Envelope type follows establishment.  A session made by
\* create_inbound_session produces normal-type envelopes only; one made by
\* create_outbound_session produces initial-type envelopes from its
\* creation on, and the type changes, to normal, on exactly the steps that
\* are a successful decrypt on that session.
TypeFollowsEstablishment ==
    /\ [](\A i \in 1..Len(sessions) :
            /\ sessions[i].side = "in" => NextType(sessions[i]) = 1
            /\ (sessions[i].side = "out" /\ consumed[i] = {}) => NextType(sessions[i]) = 0)
    /\ [][\A i \in 1..Len(sessions) :
            /\ NextType(sessions'[i]) # NextType(sessions[i])
                  => DecryptedOk(i) /\ NextType(sessions'[i]) = 1
            /\ (DecryptedOk(i) /\ sessions'[i] # sessions[i])
                  => NextType(sessions'[i]) = 1]_vars

\* The instances of each kind whose state the step changes.
ChangedAccounts == {a \in Accts : accounts'[a] # accounts[a]}
ChangedSessions == {i \in 1..Len(sessions) : sessions'[i] # sessions[i]}
ChangedOutbound == {o \in 1..Len(ogs) : ogs'[o] # ogs[o]}
ChangedInbound == {i \in 1..Len(igs) : igs'[i] # igs[i]}

\* C19 -- Distinct instances are independent.  Instances are never
\* destroyed, and a step changes the state of at most one of them, the one
\* the operation was called on; for every other instance each operation
\* returns after the step what it returned before it.
InstancesIndependent ==
    [][/\ Len(sessions') >= Len(sessions)
       /\ Len(ogs') >= Len(ogs)
       /\ Len(igs') >= Len(igs)
       /\ Cardinality(ChangedAccounts) + Cardinality(ChangedSessions)
             + Cardinality(ChangedOutbound) + Cardinality(ChangedInbound) <= 1
       /\ \A a \in ChangedAccounts :
             /\ last'.inst = Account(a)
             /\ last'.op \in {"generate_one_time_keys", "create_inbound_session"}
       /\ \A i \in ChangedSessions :
             last'.inst = Instance(i) /\ last'.op \in {"encrypt", "decrypt"}
       /\ \A o \in ChangedOutbound :
             last'.inst = Instance(o) /\ last'.op = "group_encrypt"
       /\ \A i \in ChangedInbound :
             last'.inst = Instance(i) /\ last'.op = "group_decrypt"
       /\ \A i \in (1..Len(sessions)) \ ChangedSessions :
             /\ encrypt(sessions'[i], Hi, TRUE) = encrypt(sessions[i], Hi, TRUE)
             /\ \A text \in net : decrypt(sessions'[i], text) = decrypt(sessions[i], text)
       /\ \A i \in (1..Len(igs)) \ ChangedInbound :
             \A text \in gnet : group_decrypt(igs'[i], text) = group_decrypt(igs[i], text)
       /\ \A a \in Accts \ ChangedAccounts :
             \A ik \in KeyTexts(a), text \in InboundTexts :
               create_inbound_session(a, ik, text)' = create_inbound_session(a, ik, text)]_vars

\* Two inbound group sessions built from the same export stand at different
\* positions after a decrypt on one of them, next to a pairwise session
\* that has decrypted a message.
InstancesIndependentWitness ==
    /\ last.op = "group_decrypt" /\ last.res = "ok"
    /\ \E i, j \in 1..Len(igs) :
         /\ i # j
         /\ igs[i].og = igs[j].og /\ igs[i].initial = igs[j].initial
         /\ igs[i].latest # igs[j].latest
    /\ \E i \in 1..Len(sessions) : consumed[i] # {}

====
